---- MODULE Spec2Model ----
(***************************************************************************)
(* Kitebot: the file-based queue shared by the channel adapters and the    *)
(* queue processor.                                                        *)
(*                                                                         *)
(* The Telegram adapter is translated from src/src/telegram-client.ts.     *)
(* The queue processor (queue-processor.ts) and the Discord adapter are    *)
(* not among the sources; they are modelled from spec.md sections 4.1 and  *)
(* 4.2 and from the README's description of the message flow.              *)
(*                                                                         *)
(* Date.now() is a discrete clock advanced by Tick: steps with no Tick     *)
(* between them read the same value.  The ten-minute eviction window of    *)
(* the adapter is TenMinutes units of that clock.  A file name             *)
(* {channel}_{ts}_{rnd}.json is the triple <<channel, ts, rnd>>; the       *)
(* internal message id is the pair <<ts, rnd>>.                            *)
(***************************************************************************)
EXTENDS Integers, Sequences, FiniteSets

VARIABLES
    running,          \* the adapter process is alive (handlers and timers run)
    now,              \* Date.now()
    events,           \* number of inputs the environment has delivered so far
    handlers,         \* text handlers suspended at `await ctx.sendChatAction`
    incoming,         \* .kitebot/queue/incoming : file name -> QueueData
    processing,       \* .kitebot/queue/processing : file name -> claimed message
    outgoing,         \* .kitebot/queue/outgoing : file name -> ResponseData
    pendingMessages,  \* Map<string, PendingMessage> of the Telegram adapter
    resetFlag,        \* existence of .kitebot/reset_flag
    resetsSinceCheck, \* reset commands received since the processor last checked the flag
    arrived,          \* number of QueueData files written to incoming so far
    overwritten,      \* how many of them replaced a file of the same name
    invocations,      \* number of AI invocations started so far
    responses,        \* number of responses the processor has written so far
    replies,          \* internal message id -> number of sendMessage calls for it
    lastSent,         \* the sendMessage calls of the last step
    lastTyping,       \* the sendChatAction calls of the typing-refresh timer in the last step
    lastLog           \* the lines the last step appended to the log

vars == <<resetsSinceCheck, running, now, events, handlers, incoming, processing, outgoing, pendingMessages,
          resetFlag, arrived, overwritten, invocations, responses, replies,
          lastSent, lastTyping, lastLog>>

(***************************************************************************)
(* Bounds of the model.                                                    *)
(***************************************************************************)
MaxTime == 3
MaxEvents == 2
\* 10 * 60 * 1000 ms, in units of the model's clock
TenMinutes == 2

Chats == {1}
\* two values of the random suffix of an id
Rand == {1, 2}

(***************************************************************************)
(* Texts, as sequences of characters.                                      *)
(***************************************************************************)
TextSlashReset == <<"/", "r", "e", "s", "e", "t">>
TextBangResetPadded == <<" ", "!", "R", "E", "s", "e", "t", " ">>
TextHello == <<"h", "i">>
TextResetNow == <<"/", "r", "e", "s", "e", "t", " ", "x">>
TextNoPrefix == <<"r", "e", "s", "e", "t">>

Texts == {TextSlashReset, TextBangResetPadded, TextHello, TextResetNow, TextNoPrefix}

IsSpace(c) == c \in {" ", "\t", "\n"}

\* String.prototype.trim
RECURSIVE TrimStart(_)
TrimStart(s) ==
    IF s # <<>> /\ IsSpace(Head(s)) THEN TrimStart(Tail(s)) ELSE s

RECURSIVE TrimEnd(_)
TrimEnd(s) ==
    IF s # <<>> /\ IsSpace(s[Len(s)]) THEN TrimEnd(SubSeq(s, 1, Len(s) - 1)) ELSE s

Trim(s) == TrimEnd(TrimStart(s))

\* case folding of the /i flag, on the letters of the pattern
Fold(c) ==
    CASE c = "R" -> "r"
      [] c = "E" -> "e"
      [] c = "S" -> "s"
      [] c = "T" -> "t"
      [] OTHER -> c

\* text.trim().match(/^[!/]reset$/i)
IsResetCommandBangOnly(text) ==
    LET t == Trim(text)
    IN  /\ Len(t) = 6
        /\ t[1] = "!"
        /\ \A i \in 2..6 : Fold(t[i]) = <<"r", "e", "s", "e", "t">>[i - 1]

IsResetCommand(text) ==
    LET t == Trim(text)
    IN  /\ Len(t) = 6
        /\ t[1] \in {"!", "/"}
        /\ \A i \in 2..6 : Fold(t[i]) = <<"r", "e", "s", "e", "t">>[i - 1]

(***************************************************************************)
(* Directories as functions from file names to contents.                   *)
(***************************************************************************)
EmptyDir == [f \in {} |-> 0]

WriteFile(dir, f, c) ==
    [g \in DOMAIN dir \cup {f} |-> IF g = f THEN c ELSE dir[g]]

Unlink(dir, fs) == [g \in DOMAIN dir \ fs |-> dir[g]]

\* {channel}_{messageId}.json
FileName(channel, id) == <<channel, id[1], id[2]>>

\* order of the file names as strings: the channel prefix first, then the
\* timestamp (a fixed number of digits), then the random suffix
ChannelRank(ch) == IF ch = "discord" THEN 1 ELSE 2

FileLess(a, b) ==
    \/ ChannelRank(a[1]) < ChannelRank(b[1])
    \/ a[1] = b[1] /\ a[2] < b[2]
    \/ a[1] = b[1] /\ a[2] = b[2] /\ a[3] < b[3]

\* the name of the malformed file the environment may drop into outgoing
BadFile == <<"telegram", 0, 0>>

Unparseable == [kind |-> "unparseable", messageId |-> <<0, 0>>, seq |-> 0]

Init ==
    /\ running = TRUE
    /\ now = 0
    /\ events = 0
    /\ handlers = {}
    /\ incoming = EmptyDir
    /\ processing = EmptyDir
    /\ outgoing = EmptyDir
    /\ pendingMessages = EmptyDir
    /\ resetFlag = FALSE
    /\ resetsSinceCheck = 0
    /\ arrived = 0
    /\ overwritten = 0
    /\ invocations = 0
    /\ responses = 0
    /\ replies = EmptyDir
    /\ lastSent = {}
    /\ lastTyping = {}
    /\ lastLog = {}

Tick ==
    /\ now < MaxTime
    /\ now' = now + 1
    /\ lastSent' = {}
    /\ lastTyping' = {}
    /\ lastLog' = {}
    /\ UNCHANGED <<resetsSinceCheck, running, events, handlers, incoming, processing, outgoing, pendingMessages,
                   resetFlag, arrived, overwritten, invocations, responses, replies>>

(***************************************************************************)
(* Telegram adapter: bot.on(message('text')).                              *)
(***************************************************************************)

\* fs.writeFileSync(resetFlagPath, 'reset'): creates the file or replaces it
FlagToggled(flag) == ~flag

WriteResetFlag(flag) == TRUE

\* the reset branch; replied is the outcome of `await ctx.reply(...)`
ResetCommand(text, replied) ==
    /\ running
    /\ events < MaxEvents
    /\ IsResetCommand(text)
    /\ events' = events + 1
    /\ resetFlag' = WriteResetFlag(resetFlag)
    /\ resetsSinceCheck' = resetsSinceCheck + 1
    /\ lastSent' = {}
    /\ lastTyping' = {}
    /\ lastLog' = {<<"INFO", "message", <<>>>>, <<"INFO", "reset", <<>>>>}
                    \cup (IF replied THEN {} ELSE {<<"ERROR", "handling", <<>>>>})
    /\ UNCHANGED <<running, now, handlers, incoming, processing, outgoing, pendingMessages,
                   arrived, overwritten, invocations, responses, replies>>

\* any other text: the handler suspends at `await ctx.sendChatAction('typing')`
OnText(text, chat) ==
    /\ running
    /\ events < MaxEvents
    /\ ~IsResetCommand(text)
    /\ events' = events + 1
    /\ handlers' = handlers \cup {[ref |-> events + 1, chat |-> chat]}
    /\ lastSent' = {}
    /\ lastTyping' = {}
    /\ lastLog' = {<<"INFO", "message", <<>>>>}
    /\ UNCHANGED <<resetsSinceCheck, running, now, incoming, processing, outgoing, pendingMessages, resetFlag,
                   arrived, overwritten, invocations, responses, replies>>

\* entries the clean-up loop deletes
Stale(data, t) == data.timestamp < t - TenMinutes

Evict(pending, t) ==
    [id \in {i \in DOMAIN pending : ~Stale(pending[i], t)} |-> pending[id]]

\* `${Date.now()}_${Math.random().toString(36).substring(7)}`
InternalMessageId(t, rnd) == <<t, rnd>>

\* pendingMessages.set(internalMessageId, {chatId, messageId, timestamp}),
\* in the same synchronous run as the write of the queue file
RegisterLater(pending, id, entry) == pending

Register(pending, id, entry) == WriteFile(pending, id, entry)

\* the typing indicator was sent: queue the message, record it as pending,
\* clean up old pending messages
Enqueue(h, rnd) ==
    /\ h \in handlers
    /\ LET internalMessageId == InternalMessageId(now, rnd)
           queueFile == FileName("telegram", internalMessageId)
           queueData == [channel |-> "telegram", messageId |-> internalMessageId,
                         senderId |-> h.chat, seq |-> arrived + 1]
           entry == [chatId |-> h.chat, messageId |-> h.ref, timestamp |-> now]
       IN  /\ incoming' = WriteFile(incoming, queueFile, queueData)
           /\ overwritten' = overwritten + (IF queueFile \in DOMAIN incoming THEN 1 ELSE 0)
           /\ pendingMessages' =
                  Evict(Register(pendingMessages, internalMessageId, entry), now)
           /\ lastLog' = {<<"INFO", "queued", internalMessageId>>}
    /\ handlers' = handlers \ {h}
    /\ arrived' = arrived + 1
    /\ lastSent' = {}
    /\ lastTyping' = {}
    /\ UNCHANGED <<resetsSinceCheck, running, now, events, processing, outgoing, resetFlag,
                   invocations, responses, replies>>

\* the typing indicator failed: the catch block logs, nothing is queued
TypingFailed(h) ==
    /\ h \in handlers
    /\ handlers' = handlers \ {h}
    /\ lastSent' = {}
    /\ lastTyping' = {}
    /\ lastLog' = {<<"ERROR", "handling", <<>>>>}
    /\ UNCHANGED <<resetsSinceCheck, running, now, events, incoming, processing, outgoing, pendingMessages,
                   resetFlag, arrived, overwritten, invocations, responses, replies>>

\* the adapter process is (re)started by its operator: the in-memory tracker
\* and the suspended handlers are lost, the queue directories are not
Restart ==
    /\ pendingMessages # EmptyDir \/ handlers # {} \/ ~running
    /\ running' = TRUE
    /\ pendingMessages' = EmptyDir
    /\ handlers' = {}
    /\ lastSent' = {}
    /\ lastTyping' = {}
    /\ lastLog' = {}
    /\ UNCHANGED <<resetsSinceCheck, now, events, incoming, processing, outgoing, resetFlag,
                   arrived, overwritten, invocations, responses, replies>>

(***************************************************************************)
(* Telegram adapter: checkOutgoingQueue, run every second.  The function   *)
(* has no suspension point, so one poll cycle is one step.  A parseable    *)
(* file is named after the messageId it carries, so no two files of one    *)
(* cycle share a pending entry and the files can be treated as a set.      *)
(***************************************************************************)

\* fs.readdirSync(QUEUE_OUTGOING).filter(startsWith('telegram_') && endsWith('.json'))
AllFiles(dir) == DOMAIN dir

OwnFiles(dir) == {f \in DOMAIN dir : f[1] = "telegram"}

\* JSON.parse succeeds
Parses(c) == c.kind # "unparseable"

\* const pending = pendingMessages.get(internalMessageId); if (pending)
HasPendingAny(pending, c) == pending # EmptyDir

HasPending(pending, c) == c.messageId \in DOMAIN pending

\* files that take the `if (pending)` branch
Matched(dir, pending) ==
    {f \in OwnFiles(dir) : Parses(dir[f]) /\ HasPending(pending, dir[f])}

\* files that take the else branch
Orphaned(dir, pending) ==
    {f \in OwnFiles(dir) : Parses(dir[f]) /\ ~HasPending(pending, dir[f])}

\* files whose read or parse throws: the inner catch logs the error
Failed(dir) == {f \in OwnFiles(dir) : ~Parses(dir[f])}

\* fs.unlinkSync(filePath), in both branches
UnlinkedOrphansOnly(dir, pending) == Orphaned(dir, pending)

Unlinked(dir, pending) == Matched(dir, pending) \cup Orphaned(dir, pending)

\* pendingMessages.delete(internalMessageId), in the matched branch
PendingKept(dir, pending) == pending

PendingAfterPoll(dir, pending) ==
    LET ids == {dir[f].messageId : f \in Matched(dir, pending)}
    IN  [id \in DOMAIN pending \ ids |-> pending[id]]

\* the pending entry a send is addressed from
EntryFor(pending, c) ==
    IF c.messageId \in DOMAIN pending
    THEN pending[c.messageId]
    ELSE pending[CHOOSE id \in DOMAIN pending : TRUE]

\* bot.telegram.sendMessage(pending.chatId, responseText, {reply_parameters})
Reply(pending, c, t) ==
    LET e == EntryFor(pending, c)
    IN  [internalMessageId |-> c.messageId, chatId |-> e.chatId,
         replyTo |-> e.messageId, text |-> c.seq, age |-> t - e.timestamp]

Count(bag, id) == IF id \in DOMAIN bag THEN bag[id] ELSE 0

checkOutgoingQueue ==
    /\ running
    /\ OwnFiles(outgoing) # {}
    /\ LET matched == Matched(outgoing, pendingMessages)
           ids == {outgoing[f].messageId : f \in matched}
       IN  /\ lastSent' = {Reply(pendingMessages, outgoing[f], now) : f \in matched}
           /\ replies' = [id \in DOMAIN replies \cup ids |->
                             Count(replies, id) + (IF id \in ids THEN 1 ELSE 0)]
           /\ lastLog' = {<<"INFO", "sent", f>> : f \in matched}
                         \cup {<<"WARN", "no pending", f>> :
                                  f \in Orphaned(outgoing, pendingMessages)}
                         \cup {<<"ERROR", "response file", f>> : f \in Failed(outgoing)}
    /\ lastTyping' = {}
    /\ pendingMessages' = PendingAfterPoll(outgoing, pendingMessages)
    /\ outgoing' = Unlink(outgoing, Unlinked(outgoing, pendingMessages))
    /\ UNCHANGED <<resetsSinceCheck, running, now, events, handlers, incoming, processing, resetFlag,
                   arrived, overwritten, invocations, responses>>

\* a sendMessage promise of the last poll cycle rejects.  The call at line 152
\* is neither awaited nor given a catch handler, so the rejection is unhandled:
\* the runtime either prints a warning and goes on (Node 14) or terminates the
\* process (Node 15 and later); nothing is written to the log file.  The
\* rejection is taken right after the cycle that made the call.
SendRejected(terminates) ==
    /\ running
    /\ lastSent # {}
    /\ running' = ~terminates
    /\ pendingMessages' = IF terminates THEN EmptyDir ELSE pendingMessages
    /\ handlers' = IF terminates THEN {} ELSE handlers
    /\ lastSent' = {}
    /\ lastTyping' = {}
    /\ lastLog' = {}
    /\ UNCHANGED <<resetsSinceCheck, now, events, incoming, processing, outgoing, resetFlag,
                   arrived, overwritten, invocations, responses, replies>>

(***************************************************************************)
(* Telegram adapter: the typing-refresh timer, run every four seconds.     *)
(***************************************************************************)

\* bot.telegram.sendChatAction(data.chatId, 'typing') for every entry
TypingTargets(pending, t) ==
    {[internalMessageId |-> id, chatId |-> pending[id].chatId,
      age |-> t - pending[id].timestamp] : id \in DOMAIN pending}

\* a rejection of one of the calls is taken by `.catch(() => {})`: it is not
\* logged and changes nothing
TypingRefresh ==
    /\ running
    /\ lastTyping' = TypingTargets(pendingMessages, now)
    /\ lastSent' = {}
    /\ lastLog' = {}
    /\ UNCHANGED <<resetsSinceCheck, now, events, handlers, incoming, processing, outgoing,
                   pendingMessages, resetFlag, arrived, overwritten, invocations,
                   responses, replies, running>>

(***************************************************************************)
(* Environment of the Telegram adapter's outgoing directory.               *)
(***************************************************************************)

\* a file with the telegram_ prefix that JSON.parse rejects
MalformedAppears ==
    /\ events < MaxEvents
    /\ BadFile \notin DOMAIN outgoing
    /\ events' = events + 1
    /\ outgoing' = WriteFile(outgoing, BadFile, Unparseable)
    /\ lastSent' = {}
    /\ lastTyping' = {}
    /\ lastLog' = {}
    /\ UNCHANGED <<resetsSinceCheck, running, now, handlers, incoming, processing, pendingMessages, resetFlag,
                   arrived, overwritten, invocations, responses, replies>>

(***************************************************************************)
(* Discord adapter (spec.md 4.2: same pattern as the Telegram adapter).    *)
(***************************************************************************)
\* its ids are unique, as spec.md 3 requires of a messageId
DiscordEnqueue ==
    /\ events < MaxEvents
    /\ events' = events + 1
    /\ LET id == <<now, 1>>
           queueFile == FileName("discord", id)
       IN  /\ queueFile \notin DOMAIN incoming \cup DOMAIN processing \cup DOMAIN outgoing
           /\ incoming' = WriteFile(incoming, queueFile,
                                    [channel |-> "discord", messageId |-> id,
                                     senderId |-> 0, seq |-> arrived + 1])
           /\ overwritten' = overwritten + (IF queueFile \in DOMAIN incoming THEN 1 ELSE 0)
    /\ arrived' = arrived + 1
    /\ lastSent' = {}
    /\ lastTyping' = {}
    /\ lastLog' = {}
    /\ UNCHANGED <<resetsSinceCheck, running, now, handlers, processing, outgoing, pendingMessages, resetFlag,
                   invocations, responses, replies>>

DiscordFiles(dir) == {f \in DOMAIN dir : f[1] = "discord"}

DiscordPoll ==
    /\ DiscordFiles(outgoing) # {}
    /\ outgoing' = Unlink(outgoing, DiscordFiles(outgoing))
    /\ lastSent' = {}
    /\ lastTyping' = {}
    /\ lastLog' = {}
    /\ UNCHANGED <<resetsSinceCheck, running, now, events, handlers, incoming, processing, pendingMessages,
                   resetFlag, arrived, overwritten, invocations, responses, replies>>

(***************************************************************************)
(* Queue processor (spec.md 4.1).                                          *)
(***************************************************************************)

\* "select at most one file if none is currently being processed"
NoneBeingProcessedIgnored(dir) == dir = dir

NoneBeingProcessed(dir) == dir = EmptyDir

\* "list incoming, sort by filename": the first of the sorted list
SelectLast(fs) == CHOOSE f \in fs : \A g \in fs : ~FileLess(f, g)

SelectFile(fs) == CHOOSE f \in fs : \A g \in fs : ~FileLess(g, f)

\* Reset check: the session mode of the invocation, and what is left of the flag
FreshSession(flag) == flag

FlagKept(flag) == flag

FlagAfterCheck(flag) == FALSE

\* Poll step, Claim (rename from incoming to processing), Reset check, and the
\* start of the invocation, on which the processor then blocks
ProcStart ==
    /\ NoneBeingProcessed(processing)
    /\ DOMAIN incoming # {}
    /\ LET f == SelectFile(DOMAIN incoming)
       IN  /\ incoming' = Unlink(incoming, {f})
           /\ processing' = WriteFile(processing, f,
                                [msg |-> incoming[f],
                                 fresh |-> FreshSession(resetFlag),
                                 start |-> now])
    /\ resetFlag' = FlagAfterCheck(resetFlag)
    /\ resetsSinceCheck' = 0
    /\ invocations' = invocations + 1
    /\ lastSent' = {}
    /\ lastTyping' = {}
    /\ lastLog' = {}
    /\ UNCHANGED <<running, now, events, handlers, outgoing, pendingMessages,
                   arrived, overwritten, responses, replies>>

\* the QueueResponse for a claimed message and the result of its invocation
ResponseDropsFailure(p, result) ==
    [kind |-> IF result = "ok" THEN "reply" ELSE "unparseable",
     messageId |-> p.msg.messageId, seq |-> p.msg.seq]

Response(p, result) ==
    [kind |-> IF result = "ok" THEN "reply" ELSE "error",
     messageId |-> p.msg.messageId, seq |-> p.msg.seq]

\* the invocation returns text ("ok") or fails; it runs an external process
\* and does not return within the clock reading at which it started;
\* Emit: write the response to outgoing, then delete the file from processing
ProcFinish(f, result) ==
    /\ f \in DOMAIN processing
    /\ processing[f].start < now
    /\ outgoing' = WriteFile(outgoing, f, Response(processing[f], result))
    /\ processing' = Unlink(processing, {f})
    /\ responses' = responses + 1
    /\ lastSent' = {}
    /\ lastTyping' = {}
    /\ lastLog' = IF result = "ok" THEN {} ELSE {<<"ERROR", "invocation", f>>}
    /\ UNCHANGED <<resetsSinceCheck, running, now, events, handlers, incoming, pendingMessages, resetFlag,
                   arrived, overwritten, invocations, replies>>

Next ==
    \/ Tick
    \/ \E text \in Texts, replied \in BOOLEAN : ResetCommand(text, replied)
    \/ \E text \in Texts, chat \in Chats : OnText(text, chat)
    \/ \E h \in handlers, rnd \in Rand : Enqueue(h, rnd)
    \/ \E h \in handlers : TypingFailed(h)
    \/ Restart
    \/ checkOutgoingQueue
    \/ \E terminates \in BOOLEAN : SendRejected(terminates)
    \/ TypingRefresh
    \/ MalformedAppears
    \/ DiscordEnqueue
    \/ DiscordPoll
    \/ ProcStart
    \/ \E f \in DOMAIN processing, result \in {"ok", "failed"} : ProcFinish(f, result)

Spec == Init /\ [][Next]_vars

(***************************************************************************)
(* Properties.                                                             *)
(***************************************************************************)

\* C1: at most one AI invocation is in flight at any time, whatever the
\* adapters write to incoming meanwhile: the files in processing are the
\* invocations that have started and not yet returned.
C1_OneInvocationInFlight ==
    /\ Cardinality(DOMAIN processing) <= 1
    /\ invocations - responses <= 1

\* an invocation is in flight while a message of another channel waits
C1_Witness ==
    \E f \in DOMAIN processing, g \in DOMAIN incoming : f[1] # g[1]

Drained == incoming = EmptyDir /\ processing = EmptyDir

\* C3: every QueueMessage written to incoming yields exactly one QueueResponse:
\* never more responses than messages, and as many once the queue is drained.
C3_RoundTrip ==
    /\ responses <= arrived
    /\ Drained => responses = arrived

\* C4: a pending entry older than the ten-minute window is never used to
\* address a reply.
C4_NoStaleRouting == \A r \in lastSent : r.age <= TenMinutes

\* C5: every file with the adapter's prefix that a poll cycle observes is gone
\* from outgoing when the cycle ends.
C5_ConsumedByFirstPoll ==
    [][checkOutgoingQueue =>
          \A f \in DOMAIN outgoing : f[1] = "telegram" => f \notin DOMAIN outgoing']_vars

\* the texts of the model that are reset commands
ResetTexts == {TextSlashReset, TextBangResetPadded}

\* C6: a text that is a reset command, after trimming and whatever its case,
\* is always taken by the reset branch, never by the queueing branch; the reset
\* branch sets the flag whether or not the confirmation reply succeeds, and
\* writes nothing to incoming and records no pending entry (nor suspends a
\* handler that would).
C6_ResetBypassesQueue ==
    /\ [](running /\ events < MaxEvents =>
            \A text \in ResetTexts, replied \in BOOLEAN :
                ENABLED ResetCommand(text, replied))
    /\ [][\A text \in ResetTexts :
            /\ \A chat \in Chats : ~OnText(text, chat)
            /\ \A replied \in BOOLEAN :
                  ResetCommand(text, replied) =>
                      /\ resetFlag'
                      /\ UNCHANGED <<incoming, pendingMessages, handlers, arrived>>]_vars

\* the flag is set although the confirmation reply failed
C6_Witness ==
    /\ resetFlag
    /\ <<"INFO", "reset", <<>>>> \in lastLog
    /\ <<"ERROR", "handling", <<>>>> \in lastLog
    /\ arrived = 0

\* C7: an invocation is started in fresh-session mode exactly when the reset
\* flag existed, and the flag is gone after that step; the flag is deleted by
\* no other step and set only by a reset command.
C7_ResetConsumedByNextCycle ==
    [][/\ \A f \in DOMAIN processing' \ DOMAIN processing :
              /\ processing'[f].fresh = resetFlag
              /\ ~resetFlag'
       /\ (resetFlag /\ ~resetFlag') => invocations' = invocations + 1
       /\ (~resetFlag /\ resetFlag') =>
              \E text \in Texts, replied \in BOOLEAN : ResetCommand(text, replied)]_vars

\* a message is being invoked in fresh-session mode and the flag is consumed
C7_Witness ==
    \E f \in DOMAIN processing : processing[f].fresh /\ ~resetFlag

\* C8: a parseable response file whose messageId has no pending entry is
\* deleted with a warning and no sendMessage call; every sendMessage call is
\* addressed from the pending entry of the response's messageId.
C8_OrphanDiscarded ==
    [][/\ checkOutgoingQueue =>
            \A f \in DOMAIN outgoing :
                (/\ f[1] = "telegram"
                 /\ outgoing[f].kind \in {"reply", "error"}
                 /\ outgoing[f].messageId \notin DOMAIN pendingMessages)
                => /\ f \notin DOMAIN outgoing'
                   /\ <<"WARN", "no pending", f>> \in lastLog'
                   /\ \A r \in lastSent' : r.internalMessageId # outgoing[f].messageId
       /\ \A r \in lastSent' :
            /\ r.internalMessageId \in DOMAIN pendingMessages
            /\ r.chatId = pendingMessages[r.internalMessageId].chatId
            /\ r.replyTo = pendingMessages[r.internalMessageId].messageId]_vars

\* a poll has just discarded an orphaned response without sending anything
C8_Witness ==
    /\ lastSent = {}
    /\ \E e \in lastLog : e[1] = "WARN" /\ e[3] \notin DOMAIN outgoing

\* C9: at most one reply is ever sent per messageId, and a poll that matches a
\* response to a pending entry removes the entry and deletes the file in that
\* same cycle.
C9_CleanupIdempotent ==
    /\ [](\A id \in DOMAIN replies : replies[id] <= 1)
    /\ [][checkOutgoingQueue =>
            \A f \in DOMAIN outgoing :
                (/\ f[1] = "telegram"
                 /\ outgoing[f].kind \in {"reply", "error"}
                 /\ outgoing[f].messageId \in DOMAIN pendingMessages)
                => /\ f \notin DOMAIN outgoing'
                   /\ outgoing[f].messageId \notin DOMAIN pendingMessages'
                   /\ \E r \in lastSent' :
                          r.internalMessageId = outgoing[f].messageId]_vars

\* a reply has just been sent and both the entry and the file are gone
C9_Witness ==
    \E r \in lastSent :
        /\ replies[r.internalMessageId] = 1
        /\ r.internalMessageId \notin DOMAIN pendingMessages
        /\ FileName("telegram", r.internalMessageId) \notin DOMAIN outgoing

\* C10: when the invocation for a message fails, the processor writes an
\* error response with that message's id to outgoing and removes the message
\* from processing; whenever nothing is being processed and incoming is not
\* empty the next message can be started.
C10_FailureNotFatal ==
    /\ [](processing = EmptyDir /\ incoming # EmptyDir => ENABLED ProcStart)
    /\ [][\A f \in DOMAIN processing :
            ProcFinish(f, "failed") =>
                /\ f \in DOMAIN outgoing'
                /\ outgoing'[f].kind = "error"
                /\ outgoing'[f].messageId = processing[f].msg.messageId
                /\ f \notin DOMAIN processing'
                /\ responses' = responses + 1]_vars

\* an error response has been written and a later message is being invoked
C10_Witness ==
    /\ \E f \in DOMAIN outgoing : outgoing[f].kind = "error"
    /\ processing # EmptyDir

\* C11: a message is claimed at most once, and between enqueue and emit its
\* file is in exactly one of incoming and processing: no file name is in both
\* directories, and every message written to incoming and not yet answered has
\* a file in one of them.
C11_ExactlyOneDirectory ==
    /\ DOMAIN incoming \cap DOMAIN processing = {}
    /\ invocations <= arrived
    /\ arrived = responses + Cardinality(DOMAIN incoming) + Cardinality(DOMAIN processing)

\* C12: whenever the handler of a text that is not a reset command ends (the
\* adapter process still running), a QueueMessage file telegram_<id> is in
\* incoming and the tracker holds an entry under that id with the chat id and
\* the reference of the original message; this also when the typing-indicator
\* call has failed.
C12_EveryTextQueued ==
    [][~Restart =>
          \A h \in handlers \ handlers' :
              \E id \in DOMAIN pendingMessages' :
                  /\ FileName("telegram", id) \in DOMAIN incoming'
                  /\ incoming'[FileName("telegram", id)].messageId = id
                  /\ pendingMessages'[id].chatId = h.chat
                  /\ pendingMessages'[id].messageId = h.ref]_vars

\* C13: a poll cycle that meets a file with the adapter's prefix that does not
\* parse logs the error and deletes the file, so that no later cycle reads it
\* again, and still handles the other files of the cycle.
C13_MalformedDeleted ==
    [][checkOutgoingQueue =>
          \A f \in DOMAIN outgoing :
              (f[1] = "telegram" /\ outgoing[f].kind = "unparseable")
              => /\ <<"ERROR", "response file", f>> \in lastLog'
                 /\ f \notin DOMAIN outgoing'
                 /\ \A g \in DOMAIN outgoing :
                        (g[1] = "telegram" /\ outgoing[g].kind # "unparseable")
                        => g \notin DOMAIN outgoing']_vars

\* C14: a failed platform call (the send of a reply, the typing indicator of a
\* handler) is logged as an error and swallowed: no step stops the adapter
\* process, whose event handling and timers go on.
C14_ErrorsContained ==
    [][/\ running => running'
       /\ \A terminates \in BOOLEAN :
              SendRejected(terminates) => \E e \in lastLog' : e[1] = "ERROR"
       /\ \A h \in handlers :
              TypingFailed(h) => \E e \in lastLog' : e[1] = "ERROR"]_vars

\* C15: a typing-refresh tick sends the indicator exactly for the entries in
\* the tracker, and the indicator stops for an entry once it is older than the
\* ten-minute window (the entry is then evicted, if no response resolved it
\* before): no tick sends the indicator for an entry older than the window.
C15_TypingStops ==
    \A t \in lastTyping :
        /\ t.internalMessageId \in DOMAIN pendingMessages
        /\ t.chatId = pendingMessages[t.internalMessageId].chatId
        /\ t.age <= TenMinutes

\* C16: the id given to an inbound message is not the id of any message still
\* in the queue or in the tracker, so no file in incoming and no pending entry
\* is ever overwritten by a later message.
C16_MessageIdUnique ==
    /\ [](overwritten = 0)
    /\ [][\A h \in handlers, rnd \in Rand :
            Enqueue(h, rnd) =>
                /\ InternalMessageId(now, rnd) \notin DOMAIN pendingMessages
                /\ FileName("telegram", InternalMessageId(now, rnd)) \notin
                       DOMAIN incoming \cup DOMAIN processing \cup DOMAIN outgoing]_vars

\* C17: the step of the handler that writes a QueueMessage file to incoming
\* also records the pending entry of its id, with the time of that step: in no
\* state has a file been written whose entry is still to be recorded, so no
\* poll of the adapter and no step of the processor falls between the two.
C17_RegistrationAtomic ==
    [][\A f \in DOMAIN incoming' :
          (/\ f[1] = "telegram"
           /\ f \notin DOMAIN incoming \/ incoming'[f] # incoming[f])
          => /\ f = FileName("telegram", incoming'[f].messageId)
             /\ incoming'[f].messageId \in DOMAIN pendingMessages'
             /\ pendingMessages'[incoming'[f].messageId].timestamp = now
             /\ pendingMessages'[incoming'[f].messageId].chatId = incoming'[f].senderId]_vars

\* a message has just been queued while the processor is idle: its entry is
\* already in the tracker when the processor can first claim the file
C17_Witness ==
    /\ processing = EmptyDir
    /\ \E e \in lastLog :
           /\ e[2] = "queued"
           /\ e[3] \in DOMAIN pendingMessages
           /\ FileName("telegram", e[3]) \in DOMAIN incoming

\* the steps of the Telegram adapter
AdapterStep ==
    \/ \E text \in Texts, replied \in BOOLEAN : ResetCommand(text, replied)
    \/ \E text \in Texts, chat \in Chats : OnText(text, chat)
    \/ \E h \in handlers, rnd \in Rand : Enqueue(h, rnd)
    \/ \E h \in handlers : TypingFailed(h)
    \/ checkOutgoingQueue
    \/ \E terminates \in BOOLEAN : SendRejected(terminates)
    \/ TypingRefresh
    \/ Restart

\* C18: a step of the adapter leaves every file of outgoing that is not named
\* telegram_*.json as it is, writes no file into outgoing, leaves processing
\* as it is, removes no file from incoming, and does not delete the reset flag.
C18_OwnFilesOnly ==
    [][AdapterStep =>
          /\ \A f \in DOMAIN outgoing :
                 f[1] # "telegram" => f \in DOMAIN outgoing' /\ outgoing'[f] = outgoing[f]
          /\ \A f \in DOMAIN outgoing' :
                 f \in DOMAIN outgoing /\ outgoing'[f] = outgoing[f]
          /\ processing' = processing
          /\ DOMAIN incoming \subseteq DOMAIN incoming'
          /\ resetFlag => resetFlag']_vars

\* a poll cycle has just handled a file of its own and the response for the
\* Discord adapter is still in outgoing
C18_Witness ==
    /\ DiscordFiles(outgoing) # {}
    /\ \E e \in lastLog : e[2] \in {"sent", "no pending", "response file"}

\* C19: the poll cycle that calls sendMessage for a response removes the
\* pending entry and deletes the file in that same step, before the outcome of
\* the call is known; a rejection of the call restores neither, and no id is
\* ever given a second sendMessage call: a reply whose send fails is lost.
C19_NoRetry ==
    /\ [](\A id \in DOMAIN replies : replies[id] <= 1)
    /\ [][/\ checkOutgoingQueue =>
              \A r \in lastSent' :
                  /\ Count(replies', r.internalMessageId) = Count(replies, r.internalMessageId) + 1
                  /\ r.internalMessageId \notin DOMAIN pendingMessages'
                  /\ FileName("telegram", r.internalMessageId) \notin DOMAIN outgoing'
          /\ \A terminates \in BOOLEAN :
              SendRejected(terminates) =>
                  /\ outgoing' = outgoing
                  /\ replies' = replies
                  /\ \A r \in lastSent :
                         /\ r.internalMessageId \notin DOMAIN pendingMessages'
                         /\ FileName("telegram", r.internalMessageId) \notin DOMAIN outgoing']_vars

\* the send of a reply has failed and ended the adapter process: the one call
\* for the id has been made, and the response file is no longer in outgoing
C19_Witness ==
    /\ ~running
    /\ \E id \in DOMAIN replies :
           /\ replies[id] = 1
           /\ FileName("telegram", id) \notin DOMAIN outgoing

====
